---- MODULE Spec2Model ----
(***************************************************************************)
(* Model of data-acquisition (src/src/main.rs): the bulk downloader of     *)
(* historical weather radar images.  main() snapshots the destination      *)
(* directory, enumerates (day, hour) work items, then fans them out over a *)
(* rayon pool; each pool task runs process_file().                         *)
(***************************************************************************)
EXTENDS Integers, Sequences, FiniteSets, TLC

\* ------------------------------------------------------------------ bounds
\* Longest date range (in days) a modelled RunConfig spans.
MaxDays == 2
\* The parallel runner is explored only for lists of at most this many items.
MaxDispatch == 2
\* Threads of the rayon pool (tasks in flight at once).
NumWorkers == 2
\* Changes made to the directory by other processes during the runs.
MaxExternal == 1
\* Invocations of the program against the same directory.
MaxRuns == 2

\* --------------------------------------------------------- program inputs
\* --site and --image-type (main.rs:184).
Site == "SITE"
ImageType == "TYPE"
\* Start dates the RunConfig is drawn from: a leap day at a month's end, a year's
\* end, a year's first day.
StartDates == { <<2020, 2, 29>>, <<2020, 12, 31>>, <<2021, 1, 1>> }
\* --start-hour (main.rs:85-91): its default, and the values it is drawn from
\* where the input is varied.
DEFAULT_START_HOUR == 0
StartHours == { 0, 5, 23 }
\* Status codes ureq reports as Error::Status.
StatusCodes == { 404, 500 }

\* ------------------------------------------------------------- calendar
\* chrono's proleptic Gregorian calendar, as Utc.ymd and Date + Duration use it.
IsLeap(y) == (y % 4 = 0 /\ y % 100 # 0) \/ y % 400 = 0

DaysInMonth(y, m) ==
  IF m = 2 THEN (IF IsLeap(y) THEN 29 ELSE 28)
  ELSE IF m \in {4, 6, 9, 11} THEN 30 ELSE 31

\* dt + Duration::days(1)  (main.rs:200)
NextDay(dt) ==
  IF dt[3] < DaysInMonth(dt[1], dt[2]) THEN <<dt[1], dt[2], dt[3] + 1>>
  ELSE IF dt[2] < 12 THEN <<dt[1], dt[2] + 1, 1>>
  ELSE <<dt[1] + 1, 1, 1>>

\* The order of chrono's Date: by year, then month, then day.
DateLT(a, b) ==
  \/ a[1] < b[1]
  \/ a[1] = b[1] /\ a[2] < b[2]
  \/ a[1] = b[1] /\ a[2] = b[2] /\ a[3] < b[3]

DateLE(a, b) == a = b \/ DateLT(a, b)

\* A loop condition that stops one day early.
LoopCondExclusive(dt, end_date) == DateLT(dt, end_date)

\* while dt <= end_date  (main.rs:179)
LoopCond(dt, end_date) == DateLE(dt, end_date)

\* ------------------------------------------------------------ formatting
Digit == <<"0", "1", "2", "3", "4", "5", "6", "7", "8", "9">>

\* A padding that keeps only the last digit.
Pad2Lossy(n) == "0" \o Digit[(n % 10) + 1]

\* format!("{:02}", n), dt.format("%m"), dt.format("%d"): two digits, zero padded.
Pad2(n) ==
  IF n < 100 THEN Digit[(n \div 10) + 1] \o Digit[(n % 10) + 1]
  ELSE Digit[(n \div 100) + 1] \o Digit[((n \div 10) % 10) + 1] \o Digit[(n % 10) + 1]

\* dt.format("%Y"): four digits, zero padded (years 0..9999).
FormatYear(y) ==
  Digit[(y \div 1000) + 1] \o Digit[((y \div 100) % 10) + 1]
    \o Digit[((y \div 10) % 10) + 1] \o Digit[(y % 10) + 1]

\* main.rs:181-185
file_name(dt, hour) ==
  Site \o "_" \o ImageType \o "_" \o FormatYear(dt[1]) \o "-" \o Pad2(dt[2])
    \o "-" \o Pad2(dt[3]) \o "T" \o Pad2(hour) \o "-00.gif"

IMAGE_BASE_URL == "https://climate.weather.gc.ca/radar/image_e.html"

\* main.rs:193-197
fetch_url(dt, hour) ==
  IMAGE_BASE_URL \o "?time=" \o FormatYear(dt[1]) \o Pad2(dt[2]) \o Pad2(dt[3])
    \o Pad2(hour) \o "00&site=" \o Site \o "&image_type=" \o ImageType

\* ----------------------------------------------------------- enumeration
\* for hour in 0 .. 23  (main.rs:180): HourStart inclusive, HourEnd exclusive.
HourStart == 0
HourEnd == 23

\* A filter that never skips.
IsExistingNever(existing, name) == FALSE

\* if let Some(file_list) = existing_files.as_ref() { file_list.iter().any(..) }
\* (main.rs:187-191)
IsExisting(existing, name) == existing.some /\ name \in existing.list

\* What one iteration pushes (main.rs:198); dt and hour are kept beside the two
\* strings of the code's tuple.
WorkItem(dt, hour) ==
  [ fetch_url |-> fetch_url(dt, hour), file_name |-> file_name(dt, hour),
    dt |-> dt, hour |-> hour ]

\* The for loop of one day (main.rs:180-199): the hours in order, those whose
\* file name is in the snapshot skipped by `continue`.
ForHours(dt, existing) ==
  LET Keep(it) == ~IsExisting(existing, it.file_name)
  IN  SelectSeq([ k \in 1 .. (HourEnd - HourStart) |-> WorkItem(dt, HourStart + k - 1) ], Keep)

\* The while loop (main.rs:178-201).
RECURSIVE WhileDays(_, _, _, _)
WhileDays(dt, end_date, existing, acc) ==
  IF LoopCond(dt, end_date)
  THEN WhileDays(NextDay(dt), end_date, existing, acc \o ForHours(dt, existing))
  ELSE acc

NoSnapshot == [ some |-> FALSE, list |-> {} ]

\* An enumeration that starts the first day at --start-hour.
EnumerateFromStartHour(c, existing) ==
  LET Late(it) == it.dt # c.start_date \/ it.hour >= c.start_hour
  IN  SelectSeq(WhileDays(c.start_date, c.end_date, existing, <<>>), Late)

\* main.rs:176-201 on a RunConfig: the loops read start_date and end_date;
\* main() never reads the start-hour argument.
Enumerate(c, existing) == WhileDays(c.start_date, c.end_date, existing, <<>>)

\* ----------------------------------------------------------------- state
VARIABLES
  cfg,            \* RunConfig: start_date, end_date (main.rs:149-159), start_hour
  dirExists,      \* whether the destination directory exists
  files,          \* its entries: name -> [content, writer]; writer 0 = there before the runs
  pc,             \* where main() is
  panicMsg,       \* the message main() died with, "" while it lives
  existing_files, \* main.rs:163
  file_urls,      \* main.rs:176
  bar,            \* the ProgressBar (main.rs:203)
  task,           \* one pool task per element of file_urls (main.rs:205-208)
  results,        \* _results (main.rs:205)
  logs,           \* the error! lines written so far
  ext,            \* changes other processes made to the directory
  run,            \* which invocation of the program this is
  prev            \* what the previous invocation left behind

vars == << cfg, dirExists, files, pc, panicMsg, existing_files, file_urls, bar,
           task, results, logs, ext, run, prev >>

EmptyDir == [ n \in {} |-> 0 ]

RECURSIVE AddDays(_, _)
AddDays(dt, k) == IF k = 0 THEN dt ELSE AddDays(NextDay(dt), k - 1)

\* Every item of the configured range, as a run against an empty directory lists them.
AllItems(c) == Enumerate(c, NoSnapshot)

Range(s) == { s[i] : i \in DOMAIN s }

AllNames(c) == { it.file_name : it \in Range(AllItems(c)) }

\* The (day, hour) slots whose files a modelled directory lacks, in the order
\* they go missing.
Slots(c) == << <<c.start_date, 5>>, <<c.end_date, 22>>, <<c.start_date, 0>>, <<c.end_date, 11>> >>

Lacking(c, j) == { file_name(Slots(c)[k][1], Slots(c)[k][2]) : k \in 1 .. j }

\* The file another process may remove during a run: the first of the range.
Removable(c) == { file_name(c.start_date, HourStart) }

\* Directory listings the first run may start from: an empty directory, a
\* directory holding only the 05:00 image of the first day, and a directory an
\* earlier download filled except for at most MaxDispatch slots.
InitialListings(c) ==
  { {} , { file_name(c.start_date, 5) } }
    \cup { (AllNames(c) \cup {"README.txt"}) \ Lacking(c, j) : j \in 0 .. MaxDispatch }

NoBar == [ len |-> 0, pos |-> 0, finished |-> FALSE ]

NoPrev == [ ran |-> FALSE, completed |-> FALSE, files |-> EmptyDir,
            dispatched |-> {}, saved |-> {} ]

\* The state main() starts in, for a start hour among H.
InitWith(H) ==
  /\ \E d0 \in StartDates, k \in 0 .. (MaxDays - 1), h \in H :
       cfg = [ start_date |-> d0, end_date |-> AddDays(d0, k), start_hour |-> h ]
  /\ \/ dirExists = FALSE /\ files = EmptyDir
     \/ /\ dirExists = TRUE
        /\ \E L \in InitialListings(cfg) : files = [ n \in L |-> [ content |-> "full", writer |-> 0 ] ]
  /\ pc = "init"
  /\ panicMsg = ""
  /\ existing_files = NoSnapshot
  /\ file_urls = <<>>
  /\ bar = NoBar
  /\ task = <<>>
  /\ results = <<>>
  /\ logs = {}
  /\ ext = 0
  /\ run = 1
  /\ prev = NoPrev

Init == InitWith({ DEFAULT_START_HOUR })

\* The same with --start-hour given.
InitHour == InitWith(StartHours)

\* ------------------------------------------------------------------ main
\* main.rs:169-171: read_dir(directory), each entry's file_name(), collected.
ListDirectory(f) == DOMAIN f

\* An error that is reported and then ignored: main() goes on with no snapshot.
ExpectIgnored(msg) ==
  /\ pc' = "enumerate"
  /\ panicMsg' = msg
  /\ UNCHANGED << dirExists, existing_files >>

\* .expect(msg) on an Err in main.rs:165 and main.rs:169-171: main() panics.
Expect(msg) ==
  /\ pc' = "panicked"
  /\ panicMsg' = msg
  /\ UNCHANGED << dirExists, existing_files >>

\* main.rs:163-174: the directory is created when missing (no snapshot), else
\* listed.  Either system call may fail, and .expect() then panics.
MainExistingFiles ==
  /\ pc = "init"
  /\ \/ /\ ~dirExists
        /\ dirExists' = TRUE
        /\ existing_files' = NoSnapshot
        /\ pc' = "enumerate"
        /\ UNCHANGED panicMsg
     \/ /\ ~dirExists
        /\ Expect("Failed to create specified directory, which does not exist.")
     \/ /\ dirExists
        /\ existing_files' = [ some |-> TRUE, list |-> ListDirectory(files) ]
        /\ pc' = "enumerate"
        /\ UNCHANGED << dirExists, panicMsg >>
     \/ /\ dirExists
        /\ Expect("Failed to read directory, though it exists.")
  /\ UNCHANGED << cfg, files, file_urls, bar, task, results, logs, ext, run, prev >>

\* main.rs:176-201
MainEnumerate ==
  /\ pc = "enumerate"
  /\ file_urls' = Enumerate(cfg, existing_files)
  /\ pc' = "dispatch"
  /\ UNCHANGED << cfg, dirExists, files, panicMsg, existing_files, bar, task,
                  results, logs, ext, run, prev >>

NewTask == [ pc |-> "queued", bytes |-> "none", result |-> "none", fault |-> "none",
             code |-> 0, panic |-> "" ]

\* A bar sized to the whole range, the skipped items included.
BarLengthOfRange(urls) == Len(AllItems(cfg))

\* file_urls.len() as u64  (main.rs:203)
BarLength(urls) == Len(urls)

\* main.rs:203-205: the bar is sized and every element handed to the pool.
MainProgressBar ==
  /\ pc = "dispatch"
  /\ Len(file_urls) <= MaxDispatch
  /\ bar' = [ len |-> BarLength(file_urls), pos |-> 0, finished |-> FALSE ]
  /\ task' = [ i \in 1 .. Len(file_urls) |-> NewTask ]
  /\ pc' = "running"
  /\ UNCHANGED << cfg, dirExists, files, panicMsg, existing_files, file_urls,
                  results, logs, ext, run, prev >>

\* ---------------------------------------------------------- process_file
\* The error! lines of process_file: the logger carries file_url (main.rs:108).
CreateFailedLog(url) ==
  [ file_url |-> url, msg |-> "Failed to create file due to error", code |-> 0 ]

\* A status line that leaves the code out.
StatusLogNoCode(url, code) ==
  [ file_url |-> url, msg |-> "HTTP error code recieved when fetching url.", code |-> 0 ]

\* main.rs:136
StatusLog(url, code) ==
  [ file_url |-> url, msg |-> "HTTP error code recieved when fetching url.", code |-> code ]

\* main.rs:140
TransportLog(url) ==
  [ file_url |-> url, msg |-> "I/O or transport error occured when fetching url.", code |-> 0 ]

\* The bodies a response may carry: no bytes, or some.
Bodies == { "empty", "data" }

\* An emptiness test that never finds the body empty.
BytesIsEmptyNever(bytes) == FALSE

\* bytes.is_empty()  (main.rs:121)
BytesIsEmpty(bytes) == bytes = "empty"

\* A path built from the URL instead of the identifier.
pathFromUrl(i) == file_urls[i].fetch_url

\* main.rs:116-117: directory/identifier, the entry's name in the directory.
path(i) == file_urls[i].file_name

\* What File::create leaves at the path (main.rs:122): an empty file of this run.
CreatedFile == [ content |-> "empty", writer |-> run ]

\* Tasks that hold a pool thread.
InFlight == { i \in DOMAIN task :
                task[i].pc \in {"started", "response", "mkdir", "read", "create", "write"} }

TaskFrame == << cfg, pc, panicMsg, existing_files, file_urls, results, ext, run, prev >>

Returned(t, r) == [ t EXCEPT !.pc = "done", !.result = r ]

Panicked(t, fault, msg) == [ t EXCEPT !.pc = "panicked", !.fault = fault, !.panic = msg ]

\* An increment that is left out.
BarIncNone(b) == b

\* bar.inc(1)  (main.rs:207)
BarInc(b) == [ b EXCEPT !.pos = @ + 1 ]

\* main.rs:207, bar.inc(1): a free pool thread picks any queued element.
TaskStart(i) ==
  /\ pc = "running"
  /\ task[i].pc = "queued"
  /\ Cardinality(InFlight) < NumWorkers
  /\ bar' = BarInc(bar)
  /\ task' = [ task EXCEPT ![i].pc = "started" ]
  /\ UNCHANGED << TaskFrame, dirExists, files, logs >>

\* main.rs:110 and the two Err arms (main.rs:135-142): ureq::get(file_url).call().
TaskCall(i) ==
  /\ pc = "running"
  /\ task[i].pc = "started"
  /\ \/ /\ task' = [ task EXCEPT ![i].pc = "response" ]
        /\ UNCHANGED logs
     \/ \E code \in StatusCodes :
          /\ logs' = logs \cup { StatusLog(file_urls[i].fetch_url, code) }
          /\ task' = [ task EXCEPT
                         ![i] = Returned([ @ EXCEPT !.fault = "status", !.code = code ], "Err") ]
     \/ /\ logs' = logs \cup { TransportLog(file_urls[i].fetch_url) }
        /\ task' = [ task EXCEPT ![i] = Returned([ @ EXCEPT !.fault = "transport" ], "Err") ]
  /\ UNCHANGED << TaskFrame, dirExists, files, bar >>

\* main.rs:112: !Path::new(directory).exists()
TaskCheckDir(i) ==
  /\ pc = "running"
  /\ task[i].pc = "response"
  /\ task' = [ task EXCEPT ![i].pc = IF dirExists THEN "read" ELSE "mkdir" ]
  /\ UNCHANGED << TaskFrame, dirExists, files, bar, logs >>

\* main.rs:113: create_dir(directory).expect(..).  It fails when the directory
\* exists by now: another task, or anyone, made it since the test of line 112.
TaskCreateDir(i) ==
  /\ pc = "running"
  /\ task[i].pc = "mkdir"
  /\ \/ /\ ~dirExists
        /\ dirExists' = TRUE
        /\ task' = [ task EXCEPT ![i].pc = "read" ]
     \/ /\ dirExists
        /\ task' = [ task EXCEPT ![i] = Panicked(@, "mkdir_exists",
                       "Failed to create specified directory, which does not exist.") ]
        /\ UNCHANGED dirExists
  /\ UNCHANGED << TaskFrame, files, bar, logs >>

\* main.rs:119-121 and 131-133: read_to_end(&mut bytes).expect(..), then the
\* emptiness test.
TaskRead(i) ==
  /\ pc = "running"
  /\ task[i].pc = "read"
  /\ \/ \E body \in Bodies :
          task' = [ task EXCEPT ![i] =
                      IF BytesIsEmpty(body)
                      THEN Returned([ @ EXCEPT !.bytes = body ], "Err")
                      ELSE [ @ EXCEPT !.pc = "create", !.bytes = body ] ]
     \/ task' = [ task EXCEPT ![i] = Panicked(@, "read_io",
                    "Failed to process response from server as an array of bytes.") ]
  /\ UNCHANGED << TaskFrame, dirExists, files, bar, logs >>

\* main.rs:116-117 and 122-128: File::create(directory/identifier).  It cannot
\* succeed without the directory and may fail for the system's own reasons.
TaskFileCreate(i) ==
  /\ pc = "running"
  /\ task[i].pc = "create"
  /\ \/ /\ dirExists
        /\ files' = [ n \in DOMAIN files \cup { path(i) } |->
                        IF n = path(i) THEN CreatedFile ELSE files[n] ]
        /\ task' = [ task EXCEPT ![i].pc = "write" ]
        /\ UNCHANGED logs
     \/ /\ logs' = logs \cup { CreateFailedLog(file_urls[i].fetch_url) }
        /\ task' = [ task EXCEPT ![i] = Returned([ @ EXCEPT !.fault = "create" ], "Err") ]
        /\ UNCHANGED files
  /\ UNCHANGED << TaskFrame, dirExists, bar >>

\* The file as write_all leaves it: "full" with every byte written, "partial"
\* with fewer.  An entry another process has removed meanwhile stays removed
\* (the task writes to its open handle).
Written(i, content) ==
  [ n \in DOMAIN files |->
      IF n = path(i) /\ files[n].writer = run
      THEN [ files[n] EXCEPT !.content = content ] ELSE files[n] ]

\* main.rs:129-130: file.write_all(&bytes).expect(..); Ok(())
TaskWrite(i) ==
  /\ pc = "running"
  /\ task[i].pc = "write"
  /\ \/ /\ files' = Written(i, "full")
        /\ task' = [ task EXCEPT ![i] = Returned(@, "Ok") ]
     \/ /\ files' = Written(i, "partial")
        /\ task' = [ task EXCEPT ![i] = Panicked(@, "write",
                       "Failed to write bytes to file.") ]
  /\ UNCHANGED << TaskFrame, dirExists, bar, logs >>

\* A panic in a pool task unwinds into main() out of collect() (main.rs:208);
\* rayon decides when, and what the other tasks still get to do before it.
MainPropagatePanic ==
  /\ pc = "running"
  /\ \E i \in DOMAIN task : task[i].pc = "panicked" /\ panicMsg' = task[i].panic
  /\ pc' = "panicked"
  /\ UNCHANGED << cfg, dirExists, files, existing_files, file_urls, bar, task,
                  results, logs, ext, run, prev >>

\* A collect() that does not wait for the tasks.
AllReturnedNoWait == TRUE

\* collect() has every element's Result (main.rs:208).
AllReturned == \A i \in DOMAIN task : task[i].pc = "done"

\* main.rs:208-210: collect() returns once every element has its Result, then
\* bar.finish().
MainFinish ==
  /\ pc = "running"
  /\ AllReturned
  /\ results' = [ i \in DOMAIN task |-> task[i].result ]
  /\ bar' = [ bar EXCEPT !.finished = TRUE ]
  /\ pc' = "finished"
  /\ UNCHANGED << cfg, dirExists, files, panicMsg, existing_files, file_urls,
                  task, logs, ext, run, prev >>

\* ----------------------------------------------------------- environment
\* Another process removes, while the tasks run, a file that was in the
\* directory before the runs.
ExtRemoveFile ==
  /\ pc = "running"
  /\ ext < MaxExternal
  /\ \E x \in { n \in DOMAIN files \cap Removable(cfg) : files[n].writer = 0 } :
       files' = [ n \in DOMAIN files \ {x} |-> files[n] ]
  /\ ext' = ext + 1
  /\ UNCHANGED << cfg, dirExists, pc, panicMsg, existing_files, file_urls, bar,
                  task, results, logs, run, prev >>

\* Another process removes the directory and all it holds while the tasks run.
ExtRemoveDir ==
  /\ pc = "running"
  /\ ext < MaxExternal
  /\ dirExists
  /\ dirExists' = FALSE
  /\ files' = EmptyDir
  /\ ext' = ext + 1
  /\ UNCHANGED << cfg, pc, panicMsg, existing_files, file_urls, bar, task,
                  results, logs, run, prev >>

\* The operator runs the program again with the same arguments, after a run
\* that completed and that no other process disturbed.
MainRerun ==
  /\ pc = "finished"
  /\ ext = 0
  /\ run < MaxRuns
  /\ prev' = [ ran |-> TRUE, completed |-> (pc = "finished"), files |-> files,
               dispatched |-> { file_urls[i].file_name : i \in DOMAIN file_urls },
               saved |-> { file_urls[i].file_name :
                             i \in { j \in DOMAIN results : results[j] = "Ok" } } ]
  /\ run' = run + 1
  /\ pc' = "init"
  /\ panicMsg' = ""
  /\ existing_files' = NoSnapshot
  /\ file_urls' = <<>>
  /\ bar' = NoBar
  /\ task' = <<>>
  /\ results' = <<>>
  /\ logs' = {}
  /\ UNCHANGED << cfg, dirExists, files, ext >>

Next ==
  \/ MainExistingFiles
  \/ MainEnumerate
  \/ MainProgressBar
  \/ \E i \in DOMAIN task :
       \/ TaskStart(i)
       \/ TaskCall(i)
       \/ TaskCheckDir(i)
       \/ TaskCreateDir(i)
       \/ TaskRead(i)
       \/ TaskFileCreate(i)
       \/ TaskWrite(i)
  \/ MainPropagatePanic
  \/ MainFinish
  \/ ExtRemoveFile
  \/ ExtRemoveDir
  \/ MainRerun

Spec == Init /\ [][Next]_vars

\* main() up to the end of its enumeration, with --start-hour given.
NextHour ==
  \/ MainExistingFiles
  \/ MainEnumerate

SpecHour == InitHour /\ [][NextHour]_vars

\* ================================================================ claims
\* What the claims measure the program against: the calendar by day numbers,
\* and the file names written out.

\* Days since 1970-01-01 of a civil date.
DayNumber(dt) ==
  LET y   == IF dt[2] <= 2 THEN dt[1] - 1 ELSE dt[1]
      era == y \div 400
      yoe == y - era * 400
      mp  == (dt[2] + 9) % 12
      doy == (153 * mp + 2) \div 5 + dt[3] - 1
      doe == yoe * 365 + yoe \div 4 - yoe \div 100 + doy
  IN  era * 146097 + doe - 719468

DateText(dt) ==
  CASE dt = <<2020, 2, 29>>  -> "2020-02-29"
    [] dt = <<2020, 3, 1>>   -> "2020-03-01"
    [] dt = <<2020, 3, 2>>   -> "2020-03-02"
    [] dt = <<2020, 12, 31>> -> "2020-12-31"
    [] dt = <<2021, 1, 1>>   -> "2021-01-01"
    [] dt = <<2021, 1, 2>>   -> "2021-01-02"
    [] dt = <<2021, 1, 3>>   -> "2021-01-03"

KnownDates == { <<2020, 2, 29>>, <<2020, 3, 1>>, <<2020, 3, 2>>, <<2020, 12, 31>>,
                <<2021, 1, 1>>, <<2021, 1, 2>>, <<2021, 1, 3>> }

HourSuffix ==
  << "T00-00.gif", "T01-00.gif", "T02-00.gif", "T03-00.gif", "T04-00.gif", "T05-00.gif",
     "T06-00.gif", "T07-00.gif", "T08-00.gif", "T09-00.gif", "T10-00.gif", "T11-00.gif",
     "T12-00.gif", "T13-00.gif", "T14-00.gif", "T15-00.gif", "T16-00.gif", "T17-00.gif",
     "T18-00.gif", "T19-00.gif", "T20-00.gif", "T21-00.gif", "T22-00.gif" >>

DaysOfRange == { d \in KnownDates : /\ DayNumber(cfg.start_date) <= DayNumber(d)
                                    /\ DayNumber(d) <= DayNumber(cfg.end_date) }

NumDays == DayNumber(cfg.end_date) - DayNumber(cfg.start_date) + 1

\* The names of the whole range: each day, hours 00 to 22.
ExpectedNames ==
  { "SITE_TYPE_" \o DateText(d) \o HourSuffix[h] : d \in DaysOfRange, h \in 1 .. Len(HourSuffix) }

\* main() is past its enumeration loop (a run that died later had tasks); the
\* loop's own result is what pc = "dispatch" holds, and file_urls and
\* existing_files do not change from there to the end of the run.
Enumerated == pc \in {"dispatch", "running", "finished"} \/ (pc = "panicked" /\ task # <<>>)

Dispatched == { file_urls[i].file_name : i \in DOMAIN file_urls }

\* The file of item i as this run wrote it, if it did.
WroteFile(i) ==
  file_urls[i].file_name \in DOMAIN files /\ files[file_urls[i].file_name].writer = run

LogsOf(i) == { l \in logs : l.file_url = file_urls[i].fetch_url }

\* C1: with nothing in the directory to filter, the enumeration of [D0, D1]
\* yields days x 23 items, one per day and hour 0..22, strictly increasing in
\* (day, hour), without duplicates, named ..._<date>T00-00.gif to ...T22-00.gif.
C1_EnumerationOfRange ==
  (pc = "dispatch" /\ existing_files.list = {}) =>
    /\ Cardinality(DaysOfRange) = NumDays
    /\ Len(file_urls) = NumDays * Len(HourSuffix)
    /\ \A i, j \in DOMAIN file_urls :
         i < j => \/ DayNumber(file_urls[i].dt) < DayNumber(file_urls[j].dt)
                  \/ /\ file_urls[i].dt = file_urls[j].dt
                     /\ file_urls[i].hour < file_urls[j].hour
    /\ \A i \in DOMAIN file_urls :
         /\ file_urls[i].dt \in DaysOfRange
         /\ file_urls[i].hour \in 0 .. 22
         /\ file_urls[i].file_name =
              "SITE_TYPE_" \o DateText(file_urls[i].dt) \o HourSuffix[file_urls[i].hour + 1]
    /\ Cardinality(Dispatched) = Len(file_urls)
    /\ Dispatched = ExpectedNames
    /\ cfg.start_date = cfg.end_date =>
         \A h \in 1 .. Len(HourSuffix) :
           file_urls[h].file_name = "SITE_TYPE_" \o DateText(cfg.start_date) \o HourSuffix[h]

\* A range of two days listed against an empty directory.
C1_Witness ==
  /\ pc = "dispatch"
  /\ existing_files.some /\ existing_files.list = {}
  /\ cfg.start_date = <<2020, 12, 31>> /\ cfg.end_date = <<2021, 1, 1>>
  /\ Len(file_urls) = 46

\* C2 as stated: whatever the outcomes of the first run's items, a second run
\* against the same directory (nothing else touching it) dispatches no item
\* and leaves the directory's file set as the first run left it.
C2_SecondRunFetchesNothing ==
  (prev.ran /\ prev.completed /\ Enumerated /\ ext = 0) =>
    /\ file_urls = <<>>
    /\ DOMAIN files = DOMAIN prev.files

\* C2 amended: a second run against the same directory (nothing else touching
\* it) dispatches exactly the items of the range that have no file after the
\* first run; when every item the first run dispatched was saved, that is no
\* item at all, and the directory stays as the first run left it.
C2_SecondRunFetchesTheMissing ==
  (prev.ran /\ prev.completed /\ Enumerated) =>
    /\ pc = "dispatch" => Dispatched = ExpectedNames \ DOMAIN prev.files
    /\ prev.saved = prev.dispatched =>
         /\ file_urls = <<>>
         /\ ext = 0 => files = prev.files

\* A second run that finished after a first run that saved every item it had.
C2_Witness ==
  /\ prev.ran /\ prev.completed
  /\ prev.dispatched # {} /\ prev.saved = prev.dispatched
  /\ pc = "finished" /\ ext = 0
  /\ bar.len = 0

\* C4: an item whose file name is in the snapshot taken at the start of the run
\* is not in the dispatched list, has no task, and its file is not written by
\* the run, also once another process has removed the file; every other item of
\* the range is dispatched (22 of 23 when only the 05:00 file was there).
C4_SnapshotFilesNeverRefetched ==
  Enumerated =>
    /\ Dispatched \cap existing_files.list = {}
    /\ \A n \in existing_files.list \cap DOMAIN files : files[n].writer # run
    /\ \A i \in DOMAIN task : file_urls[i].file_name \notin existing_files.list
    /\ pc = "dispatch" => ExpectedNames \ existing_files.list \subseteq Dispatched
    /\ pc \in {"running", "finished"} => DOMAIN task = DOMAIN file_urls
    /\ ( /\ pc = "dispatch"
         /\ cfg.start_date = <<2021, 1, 1>> /\ cfg.end_date = <<2021, 1, 1>>
         /\ existing_files.list = { "SITE_TYPE_2021-01-01T05-00.gif" } )
       => /\ Len(file_urls) = 22
          /\ Dispatched = ExpectedNames \ { "SITE_TYPE_2021-01-01T05-00.gif" }

\* A run that finished, and saved an item, after another process removed a file
\* of the snapshot.
C4_Witness ==
  /\ pc = "finished"
  /\ \E n \in existing_files.list : n \in ExpectedNames /\ n \notin DOMAIN files
  /\ \E i \in DOMAIN results : results[i] = "Ok"

\* The tasks whose fetch has begun (bar.inc ran).
Begun == { i \in DOMAIN task : task[i].pc # "queued" }

\* C3: every dispatched item gets one progress increment and, whatever its
\* outcome (among them a failed body read and a failed write), one result; a
\* completed run holds one result per dispatched item.
C3_OneResultPerItem ==
  /\ bar.pos = Cardinality(Begun)
  /\ \A i \in DOMAIN task :
       task[i].fault \in {"read_io", "write"} => task[i].pc = "done" /\ task[i].result = "Err"
  /\ pc = "finished" =>
       /\ DOMAIN results = DOMAIN file_urls
       /\ \A i \in DOMAIN results : results[i] \in {"Ok", "Err"}

\* C5: a transport failure, an HTTP status, an empty body or a create/write
\* failure of one item ends as that item's result and never ends the run.
C5_ItemFailuresStayLocal ==
  /\ \A i \in DOMAIN task :
       (task[i].fault \in {"status", "transport", "create"} \/ task[i].bytes = "empty")
       => task[i].pc = "done" /\ task[i].result = "Err"
  /\ pc = "panicked" =>
       ~ \E i \in DOMAIN task : task[i].fault \in {"read_io", "write"}

\* C6: a task that finds the directory made by another task since its own
\* exists() test does not fail: creating a directory that exists is no error.
C6_CreateDirRaceIsHarmless ==
  \A i \in DOMAIN task : task[i].fault # "mkdir_exists"

\* C7: an item answered with a non-success status ends with Err and an error
\* line carrying that status; no file is written for it, and the step changes
\* no other task, no file and not the directory.
C7_StatusIsHttpError ==
  /\ [] \A i \in DOMAIN task :
          task[i].fault = "status" =>
            /\ task[i].pc = "done" /\ task[i].result = "Err"
            /\ LogsOf(i) = { [ file_url |-> file_urls[i].fetch_url,
                               msg |-> "HTTP error code recieved when fetching url.",
                               code |-> task[i].code ] }
            /\ task[i].code \in {404, 500}
            /\ ~WroteFile(i)
  /\ [][ \A i \in DOMAIN task :
           (i \in DOMAIN task' /\ task[i].fault # "status" /\ task'[i].fault = "status")
           => /\ files' = files /\ dirExists' = dirExists
              /\ \A j \in DOMAIN task \ {i} : task'[j] = task[j]
              /\ \A j \in DOMAIN task \ {i} : LogsOf(j)' = LogsOf(j) ]_vars

\* A finished run with one item answered 500 and another saved.
C7_Witness ==
  /\ pc = "finished"
  /\ \E i, j \in DOMAIN task :
       /\ task[i].fault = "status" /\ task[i].code = 500 /\ results[i] = "Err"
       /\ results[j] = "Ok" /\ WroteFile(j)

C9_TransportFailureIsResult ==
  \A i \in DOMAIN task :
    task[i].fault \in {"transport", "read_io"} =>
      /\ task[i].pc = "done" /\ task[i].result = "Err"
      /\ LogsOf(i) = { [ file_url |-> file_urls[i].fetch_url,
                         msg |-> "I/O or transport error occured when fetching url.",
                         code |-> 0 ] }
      /\ ~WroteFile(i)

\* C10: an item is Ok only with its file created and wholly written (nothing
\* else touching the directory); a failure to create the file or to write the
\* body ends the item with Err.
C10_SavedOrWriteError ==
  \A i \in DOMAIN task :
    /\ (task[i].result = "Ok" /\ ext = 0) =>
         WroteFile(i) /\ files[file_urls[i].file_name].content = "full"
    /\ task[i].fault \in {"create", "write"} =>
         task[i].pc = "done" /\ task[i].result = "Err"

\* The tasks whose HTTP GET has been issued.
Fetching == { i \in DOMAIN task : task[i].pc \notin {"queued", "started"} }

\* main() died of an error of its own, not of a task's panic.
FatalError == panicMsg # "" /\ \A i \in DOMAIN task : task[i].pc # "panicked"

\* C11: when the directory cannot be created or its listing cannot be read,
\* the run is aborted there: no item is listed, no GET is issued, the bar is
\* never advanced and no result is held.
C11_FatalAbortsBeforeAnyFetch ==
  FatalError =>
    /\ pc = "panicked"
    /\ panicMsg \in { "Failed to create specified directory, which does not exist.",
                      "Failed to read directory, though it exists." }
    /\ file_urls = <<>> /\ task = <<>> /\ Fetching = {}
    /\ bar = [ len |-> 0, pos |-> 0, finished |-> FALSE ]
    /\ results = <<>>

\* A run aborted because the listing of an existing directory failed.
C11_Witness ==
  /\ pc = "panicked"
  /\ panicMsg = "Failed to read directory, though it exists."
  /\ dirExists /\ DOMAIN files # {}
  /\ task = <<>>

\* C12: distinct (day, hour) timestamps give distinct file names, so no two
\* tasks of a run have the same path.
C12_FileNamesInjective ==
  /\ pc = "dispatch" =>
       \A i, j \in DOMAIN file_urls :
         (file_urls[i].dt # file_urls[j].dt \/ file_urls[i].hour # file_urls[j].hour)
         => file_urls[i].file_name # file_urls[j].file_name
  /\ pc = "dispatch" =>
       \A d1, d2 \in { cfg.start_date, cfg.end_date }, h1, h2 \in 0 .. 23 :
         (d1 # d2 \/ h1 # h2) => file_name(d1, h1) # file_name(d2, h2)
  /\ \A i, j \in DOMAIN task : i # j => path(i) # path(j)

\* Two tasks writing their files at the same time.
C12_Witness ==
  /\ pc = "running"
  /\ \E i, j \in DOMAIN task :
       /\ i # j /\ task[i].pc = "write" /\ task[j].pc = "write"
       /\ file_urls[i].hour # file_urls[j].hour

\* C13: the run is complete (bar finished, main returned) only when every
\* dispatched item has produced its result; none is queued or in flight.
C13_CompleteOnlyAfterAllResults ==
  (pc = "finished" \/ bar.finished) =>
    /\ DOMAIN task = DOMAIN file_urls
    /\ \A i \in DOMAIN task : task[i].pc = "done" /\ task[i].result \in {"Ok", "Err"}
    /\ results = [ i \in DOMAIN task |-> task[i].result ]

\* A complete run of two items.
C13_Witness ==
  /\ pc = "finished" /\ bar.finished
  /\ Len(file_urls) = 2 /\ Len(results) = 2

\* C14: no GET is issued before the snapshot is taken and the whole range is
\* enumerated and filtered; the tasks are those of the finished list, which
\* does not change while they run, and the bar's length is their number.
C14_ListBeforeNetwork ==
  /\ [] ( /\ pc \in {"init", "enumerate", "dispatch"} => task = <<>> /\ bar.len = 0
          /\ task # <<>> =>
               /\ DOMAIN task = DOMAIN file_urls
               /\ bar.len = Len(file_urls)
               /\ Dispatched \cap existing_files.list = {} )
  /\ [][ (task = <<>> /\ task' # <<>>) =>
           /\ pc = "dispatch"
           /\ file_urls' = file_urls /\ existing_files' = existing_files
           /\ Dispatched = ExpectedNames \ existing_files.list
           /\ Fetching' = {} ]_vars
  /\ [][ (task # <<>> /\ task' # <<>>) =>
           file_urls' = file_urls /\ existing_files' = existing_files /\ bar'.len = bar.len ]_vars

\* One GET issued, the second item still queued.
C14_Witness ==
  /\ pc = "running" /\ bar.len = 2
  /\ Cardinality(Fetching) = 1
  /\ \E i \in DOMAIN task : task[i].pc = "queued"

C16_RunFrame ==
  (pc = "finished" /\ ext = 0) =>
    /\ DOMAIN files =
         existing_files.list \cup { file_urls[i].file_name : i \in { j \in DOMAIN results : results[j] = "Ok" } }
    /\ \A n \in existing_files.list : files[n].writer # run /\ files[n].content = "full"
    /\ \A i \in DOMAIN results : results[i] # "Ok" => file_urls[i].file_name \notin DOMAIN files

\* A completed run with one item saved and one not.
C16_Witness ==
  /\ pc = "finished" /\ ext = 0
  /\ \E i, j \in DOMAIN results : results[i] = "Ok" /\ results[j] = "Err"

\* C17: the bar is advanced for an item before its GET is issued: the position
\* is never below the number of GETs issued, never above the bar's length, and
\* is the length once the bar is finished.
C17_ProgressBounds ==
  /\ Cardinality(Fetching) <= bar.pos
  /\ bar.pos <= bar.len
  /\ bar.len = Len(task)
  /\ \A i \in DOMAIN task : task[i].pc = "started" => bar.pos > Cardinality(Fetching)
  /\ bar.finished => bar.pos = bar.len

\* The bar advanced twice, one GET issued.
C17_Witness ==
  /\ pc = "running" /\ bar.pos = 2
  /\ Cardinality(Fetching) = 1

====
